---- MODULE Spec2Model ----
(***************************************************************************)
(* Model of the SimpleLocalize MCP bridge (src/main.py): four tools, each  *)
(* a coroutine that validates its arguments, issues one HTTP request and   *)
(* renders the outcome as a string.  A tool runs atomically up to the      *)
(* await of the HTTP call (the *_Call actions) and again from the arrival  *)
(* of the HTTP outcome to its return (the *_Resume actions).               *)
(***************************************************************************)
EXTENDS Integers, Sequences, FiniteSets, TLC

\* ---------------------------------------------------------------- bounds
MaxLen == 2      \* short input lists: every list over the item universe up to this length
MaxOver == 1     \* long input lists reach MAX_BATCH + MaxOver items
NumCalls == 2    \* invocation slots the hosting framework may have in flight

\* ---------------------------------------------------- program constants
MAX_BATCH == 100

Procs == 1..NumCalls

\* Python None, as a value of a dict entry
Null == "<None>"
EmptyDict == [k \in {} |-> Null]

\* ------------------------------------------------------- Python helpers
\* dict.get(k): the entry, None when the key is absent
Get(d, k) == IF k \in DOMAIN d THEN d[k] ELSE Null
\* dict.get(k, default)
GetOr(d, k, default) == IF k \in DOMAIN d THEN d[k] ELSE default
\* truth value of a str-or-None
Truthy(v) == v /= Null /\ v /= ""
\* dict restricted to some of its keys
Restrict(d, ks) == [k \in (DOMAIN d) \cap ks |-> d[k]]

RECURSIVE ReprTail(_, _)
ReprTail(l, i) ==
  IF i > Len(l) THEN ""
  ELSE (IF i > 1 THEN ", " ELSE "") \o "'" \o l[i] \o "'" \o ReprTail(l, i + 1)
\* str() of a list of str, as an f-string renders it
ReprList(l) == "[" \o ReprTail(l, 1) \o "]"

\* ------------------------------------------------------------ the state
VARIABLES
  SIMPLELOCALIZE_API_BASE,  \* module constant, line 10
  SIMPLELOCALIZE_API_KEY,   \* module constant, line 11
  pc,        \* per slot: "idle", "awaiting" (suspended in the HTTP await), "done"
  tool,      \* per slot: the tool invoked
  args,      \* per slot: the arguments of the invocation
  cleaned,   \* per slot: the coroutine's local cleaned_keys / cleaned_translations
  sent,      \* per slot: the HTTP requests the invocation has issued
  response,  \* per slot: the HTTP outcome delivered to the invocation
  outcome    \* per slot: what the invocation gave its caller

vars == <<SIMPLELOCALIZE_API_BASE, SIMPLELOCALIZE_API_KEY,
          pc, tool, args, cleaned, sent, response, outcome>>

config == <<SIMPLELOCALIZE_API_BASE, SIMPLELOCALIZE_API_KEY>>

NoArgs == [items |-> <<>>, environment_key |-> ""]
NoResponse == [kind |-> "none", status |-> 0, err |-> "", malformed |-> FALSE, json |-> EmptyDict]
NoOutcome == [kind |-> "none", exc |-> "", text |-> ""]

Returned(text) == [kind |-> "return", exc |-> "", text |-> text]
Raised(exc, text) == [kind |-> "raise", exc |-> exc, text |-> text]

Init ==
  /\ SIMPLELOCALIZE_API_BASE = "https://api.simplelocalize.io"
  /\ SIMPLELOCALIZE_API_KEY = "secret-token"
  /\ pc = [p \in Procs |-> "idle"]
  /\ tool = [p \in Procs |-> "none"]
  /\ args = [p \in Procs |-> NoArgs]
  /\ cleaned = [p \in Procs |-> <<>>]
  /\ sent = [p \in Procs |-> <<>>]
  /\ response = [p \in Procs |-> NoResponse]
  /\ outcome = [p \in Procs |-> NoOutcome]

\* ------------------------------------------ make_simplelocalize_request
\* the request the client issues (lines 21-37); json_data = EmptyDict with
\* has_body FALSE stands for json=None
BuildRequest(method, endpoint, has_body, json_data, base, key) ==
  [method |-> method,
   url |-> base \o endpoint,
   token |-> key,
   content_type |-> "application/json",
   has_body |-> has_body /\ method \in {"POST", "PATCH"},
   json |-> IF has_body /\ method \in {"POST", "PATCH"} THEN json_data ELSE EmptyDict]

\* the call is made again (a retry)
IssuedRequests_Retry(req) == <<req, req>>

\* the requests one call of make_simplelocalize_request issues: one
IssuedRequests(req) == <<req>>

\* response.raise_for_status(): raises unless the status is 2xx
IsSuccess(status) == 200 <= status /\ status <= 299

\* the exception class the awaited call or the two lines after it raise, "" if none
RaisedClass(r) ==
  CASE r.kind = "timeout" -> "ReadTimeout"
    [] r.kind = "transport" -> "ConnectError"
    [] ~IsSuccess(r.status) -> "HTTPStatusError"
    [] r.malformed -> "JSONDecodeError"
    [] OTHER -> ""

\* except httpx.HTTPStatusError: transport failures are not caught
IsHTTPError_StatusOnly(cls) == cls = "HTTPStatusError"

\* except httpx.HTTPError: the classes that derive from it
IsHTTPError(cls) == cls \in {"ReadTimeout", "ConnectError", "HTTPStatusError"}

\* lines 39-42: the parsed body, or the exception that leaves the function
ReceiveResponse(r) ==
  LET cls == RaisedClass(r) IN
  IF cls = "" THEN [exc |-> "", text |-> "", json |-> r.json]
  ELSE IF IsHTTPError(cls)
    THEN [exc |-> "SimpleLocalizeError", text |-> "SimpleLocalize API error: " \o r.err, json |-> EmptyDict]
    ELSE [exc |-> cls, text |-> r.err, json |-> EmptyDict]

\* ------------------------------------------------ create_translation_keys
\* if "key" not in key_info: an empty key passes
KeyItemOk_PresenceOnly(key_info) == "key" \in DOMAIN key_info

\* line 60
KeyItemOk(key_info) == Truthy(Get(key_info, "key"))

\* lines 63-71
CleanKey(key_info) ==
  Restrict(key_info, {"key"})
    @@ (IF "namespace" \in DOMAIN key_info THEN Restrict(key_info, {"namespace"}) ELSE EmptyDict)
    @@ (IF "description" \in DOMAIN key_info THEN Restrict(key_info, {"description"}) ELSE EmptyDict)

\* the limit compared one too high
TooMany_OffByOne(cleaned_items) == Len(cleaned_items) > MAX_BATCH + 1

\* lines 75, 126
TooMany(cleaned_items) == Len(cleaned_items) > MAX_BATCH

\* the list kept in a module-level variable that every invocation writes
StoreLocal_Shared(frames, p, v) == [q \in DOMAIN frames |-> v]

\* a coroutine's assignment to one of its locals
StoreLocal(frames, p, v) == [frames EXCEPT ![p] = v]

\* the failures list of the answer is not looked at
BulkResult_IgnoresFailures(got, n, failedText, okText, noun) ==
  IF got.exc = "SimpleLocalizeError" THEN Returned(got.text)
  ELSE IF got.exc /= "" THEN Raised(got.exc, got.text)
  ELSE Returned(okText \o ToString(n) \o noun)

\* lines 85-92: the tail of a bulk tool once the request function is back
BulkResult(got, n, failedText, okText, noun) ==
  IF got.exc = "SimpleLocalizeError" THEN Returned(got.text)
  ELSE IF got.exc /= "" THEN Raised(got.exc, got.text)
  ELSE LET data == GetOr(got.json, "data", EmptyDict) IN
       IF "failures" \in DOMAIN data /\ data["failures"] /= <<>>
       THEN Returned(failedText \o ReprList(data["failures"]))
       ELSE Returned(okText \o ToString(n) \o noun)

Begin(p, t, a) ==
  /\ pc[p] = "idle"
  /\ tool' = [tool EXCEPT ![p] = t]
  /\ args' = [args EXCEPT ![p] = a]
  /\ response' = [response EXCEPT ![p] = NoResponse]
  /\ UNCHANGED config

\* the invocation ends in a locally raised error, before any await
RaiseLocally(p, exc, text) ==
  /\ pc' = [pc EXCEPT ![p] = "done"]
  /\ sent' = [sent EXCEPT ![p] = <<>>]
  /\ outcome' = [outcome EXCEPT ![p] = Raised(exc, text)]

\* the invocation suspends in the await of the HTTP call
Await(p, req) ==
  /\ pc' = [pc EXCEPT ![p] = "awaiting"]
  /\ sent' = [sent EXCEPT ![p] = IssuedRequests(req)]
  /\ outcome' = [outcome EXCEPT ![p] = NoOutcome]

create_translation_keys_Call(p, keys) ==
  /\ Begin(p, "create_translation_keys", [items |-> keys, environment_key |-> ""])
  /\ IF \E i \in 1..Len(keys) : ~KeyItemOk(keys[i])
     THEN /\ RaiseLocally(p, "ValueError", "Each key must have a 'key' field")
          /\ cleaned' = StoreLocal(cleaned, p, <<>>)
     ELSE LET cleaned_keys == [i \in 1..Len(keys) |-> CleanKey(keys[i])] IN
          /\ cleaned' = StoreLocal(cleaned, p, cleaned_keys)
          /\ IF TooMany(cleaned_keys)
             THEN RaiseLocally(p, "ValueError", "Maximum 100 keys allowed per request")
             ELSE Await(p, BuildRequest("POST", "/api/v1/translation-keys/bulk", TRUE,
                                        "translationKeys" :> cleaned_keys,
                                        SIMPLELOCALIZE_API_BASE, SIMPLELOCALIZE_API_KEY))

Resume(p, t, r) ==
  /\ pc[p] = "awaiting"
  /\ tool[p] = t
  /\ pc' = [pc EXCEPT ![p] = "done"]
  /\ response' = [response EXCEPT ![p] = r]
  /\ UNCHANGED <<config, tool, args, cleaned, sent>>

create_translation_keys_Resume(p, r) ==
  /\ Resume(p, "create_translation_keys", r)
  /\ outcome' = [outcome EXCEPT ![p] =
        BulkResult(ReceiveResponse(r), Len(cleaned[p]),
                   "Some keys failed to create: ",
                   "Successfully created ", " translation keys")]

\* --------------------------------------------------- update_translations
\* line 111
TransItemOk(trans) == \A k \in {"key", "language", "text"} : k \in DOMAIN trans

\* lines 114-122
CleanTrans(trans) ==
  Restrict(trans, {"key", "language", "text"})
    @@ (IF "namespace" \in DOMAIN trans THEN Restrict(trans, {"namespace"}) ELSE EmptyDict)

update_translations_Call(p, translations) ==
  /\ Begin(p, "update_translations", [items |-> translations, environment_key |-> ""])
  /\ IF \E i \in 1..Len(translations) : ~TransItemOk(translations[i])
     THEN /\ RaiseLocally(p, "ValueError",
                          "Each translation must have 'key', 'language', and 'text' fields")
          /\ cleaned' = StoreLocal(cleaned, p, <<>>)
     ELSE LET cleaned_translations ==
                [i \in 1..Len(translations) |-> CleanTrans(translations[i])] IN
          /\ cleaned' = StoreLocal(cleaned, p, cleaned_translations)
          /\ IF TooMany(cleaned_translations)
             THEN RaiseLocally(p, "ValueError", "Maximum 100 translations allowed per request")
             ELSE Await(p, BuildRequest("PATCH", "/api/v2/translations/bulk", TRUE,
                                        "translations" :> cleaned_translations,
                                        SIMPLELOCALIZE_API_BASE, SIMPLELOCALIZE_API_KEY))

update_translations_Resume(p, r) ==
  /\ Resume(p, "update_translations", r)
  /\ outcome' = [outcome EXCEPT ![p] =
        BulkResult(ReceiveResponse(r), Len(cleaned[p]),
                   "Some translations failed to update: ",
                   "Successfully updated ", " translations")]

\* --------------------------------------------------- publish_translations
\* if environment_key is None: the empty string passes
EnvKeyOk_NotNone(environment_key) == environment_key /= Null

\* lines 161, 184: if not environment_key
EnvKeyOk(environment_key) == environment_key /= ""

publish_translations_Call(p, environment_key) ==
  /\ Begin(p, "publish_translations", [items |-> <<>>, environment_key |-> environment_key])
  /\ cleaned' = StoreLocal(cleaned, p, <<>>)
  /\ IF ~EnvKeyOk(environment_key)
     THEN RaiseLocally(p, "ValueError", "Environment key is required")
     ELSE Await(p, BuildRequest("POST", "/api/v2/environments/" \o environment_key \o "/publish",
                                FALSE, EmptyDict,
                                SIMPLELOCALIZE_API_BASE, SIMPLELOCALIZE_API_KEY))

\* lines 170-172
PublishResult(got, environment_key) ==
  IF got.exc = "SimpleLocalizeError" THEN Returned(got.text)
  ELSE IF got.exc /= "" THEN Raised(got.exc, got.text)
  ELSE Returned("Successfully initiated publishing to environment '" \o environment_key
                \o "'. Status: " \o GetOr(got.json, "msg", "OK"))

publish_translations_Resume(p, r) ==
  /\ Resume(p, "publish_translations", r)
  /\ outcome' = [outcome EXCEPT ![p] = PublishResult(ReceiveResponse(r), args[p].environment_key)]

\* ------------------------------------------------- get_environment_status
get_environment_status_Call(p, environment_key) ==
  /\ Begin(p, "get_environment_status", [items |-> <<>>, environment_key |-> environment_key])
  /\ cleaned' = StoreLocal(cleaned, p, <<>>)
  /\ IF ~EnvKeyOk(environment_key)
     THEN RaiseLocally(p, "ValueError", "Environment key is required")
     ELSE Await(p, BuildRequest("GET", "/api/v2/environments/" \o environment_key,
                                FALSE, EmptyDict,
                                SIMPLELOCALIZE_API_BASE, SIMPLELOCALIZE_API_KEY))

\* data.get('createdAt') without its default
StatusInfo_NoDefault(environment_key, data) ==
  "Environment '" \o environment_key \o "' Status:"
    \o "\n- Number of keys: " \o ToString(GetOr(data, "numberOfKeys", 0))
    \o "\n- Number of languages: " \o ToString(GetOr(data, "numberOfLanguages", 0))
    \o "\n- Non-empty translations: " \o ToString(GetOr(data, "numberOfNonEmptyTranslations", 0))
    \o "\n- Created at: " \o GetOr(data, "createdAt", "None")
    \o "\n- Number of resources: " \o ToString(Len(GetOr(data, "resources", <<>>)))

\* lines 196-201
StatusInfo(environment_key, data) ==
  "Environment '" \o environment_key \o "' Status:"
    \o "\n- Number of keys: " \o ToString(GetOr(data, "numberOfKeys", 0))
    \o "\n- Number of languages: " \o ToString(GetOr(data, "numberOfLanguages", 0))
    \o "\n- Non-empty translations: " \o ToString(GetOr(data, "numberOfNonEmptyTranslations", 0))
    \o "\n- Created at: " \o GetOr(data, "createdAt", "Unknown")
    \o "\n- Number of resources: " \o ToString(Len(GetOr(data, "resources", <<>>)))

\* lines 193-205
StatusResult(got, environment_key) ==
  IF got.exc = "SimpleLocalizeError" THEN Returned(got.text)
  ELSE IF got.exc /= "" THEN Raised(got.exc, got.text)
  ELSE Returned(StatusInfo(environment_key, GetOr(got.json, "data", EmptyDict)))

get_environment_status_Resume(p, r) ==
  /\ Resume(p, "get_environment_status", r)
  /\ outcome' = [outcome EXCEPT ![p] = StatusResult(ReceiveResponse(r), args[p].environment_key)]

\* ------------------------------------------------------ the tool server
\* mcp.run: the finished invocation's result is handed to the caller and its
\* coroutine is gone; the slot can take the next tool call
Retire(p) ==
  /\ pc[p] = "done"
  /\ pc' = [pc EXCEPT ![p] = "idle"]
  /\ tool' = [tool EXCEPT ![p] = "none"]
  /\ args' = [args EXCEPT ![p] = NoArgs]
  /\ cleaned' = [cleaned EXCEPT ![p] = <<>>]
  /\ sent' = [sent EXCEPT ![p] = <<>>]
  /\ response' = [response EXCEPT ![p] = NoResponse]
  /\ outcome' = [outcome EXCEPT ![p] = NoOutcome]
  /\ UNCHANGED config

\* ------------------------------------------------------------- inputs
\* marks a field left out of a generated dict
Absent == "<absent>"
DropAbsent(c) == Restrict(c, {f \in DOMAIN c : c[f] /= Absent})

\* the dicts a caller may pass as one element of `keys`
KeyItems ==
  { DropAbsent(c) : c \in [key : {Absent, "", "greeting"},
                           namespace : {Absent, Null, "web"}] }
  \cup { [key |-> Null],
         [key |-> "greeting", description |-> "shown on login"],
         [key |-> "greeting", namespace |-> "web", description |-> "shown on login"],
         [key |-> "greeting", language |-> "en"] }

\* the dicts a caller may pass as one element of `translations`
TransItems ==
  { DropAbsent(c) : c \in [key : {Absent, "greeting"},
                           language : {Absent, "en"},
                           text : {Absent, "Hello"}] }
  \cup { [key |-> "greeting", language |-> "en", text |-> "Hello", namespace |-> Null],
         [key |-> "greeting", language |-> "en", text |-> "Hello", namespace |-> "web"],
         [key |-> "greeting", language |-> "en", text |-> "Hello", description |-> "x"] }

FillerKey == [key |-> "filler"]
FillerTrans == [key |-> "filler", language |-> "en", text |-> "Filler"]

ShortLists(items) == UNION { [1..n -> items] : n \in 0..MaxLen }

\* lists around the batch limit: one chosen item at the head, the middle or
\* the tail of a run of fillers
LongLists(items, filler) ==
  { [i \in 1..n |-> IF i = at THEN x ELSE filler] :
      n \in (MAX_BATCH - 1)..(MAX_BATCH + MaxOver), at \in {1, MAX_BATCH \div 2, MAX_BATCH - 1},
      x \in items }

KeyLists == ShortLists(KeyItems) \cup LongLists(KeyItems, FillerKey)
TransLists == ShortLists(TransItems) \cup LongLists(TransItems, FillerTrans)
EnvironmentKeys == {"", "_latest", "_production"}

\* ------------------------------------------- what the remote end may do
Fails(kind, status, err) ==
  [kind |-> kind, status |-> status, err |-> err, malformed |-> FALSE, json |-> EmptyDict]
Ok(json) == [kind |-> "ok", status |-> 200, err |-> "", malformed |-> FALSE, json |-> json]

Failures ==
  { Fails("timeout", 0, ""),
    Fails("transport", 0, "All connection attempts failed"),
    Fails("ok", 403, "Client error '403 Forbidden'"),
    Fails("ok", 500, "Server error '500 Internal Server Error'"),
    [kind |-> "ok", status |-> 200, err |-> "Expecting value: line 1 column 1 (char 0)",
     malformed |-> TRUE, json |-> EmptyDict] }

WithData(data) == {EmptyDict} \cup { "data" :> d : d \in data }

BulkData ==
  {EmptyDict} \cup { [failures |-> f] : f \in {<<>>, <<"key1: duplicate">>,
                                               <<"key1: duplicate", "key2: too long">>} }

FullStatus ==
  [numberOfKeys |-> 12, numberOfLanguages |-> 3, numberOfNonEmptyTranslations |-> 30,
   createdAt |-> "2024-05-01T10:00:00Z", resources |-> <<"en.json", "de.json">>]

\* every subset of the fields of the status object may be missing
StatusData == { Restrict(FullStatus, S) : S \in SUBSET DOMAIN FullStatus }

PublishBodies == {EmptyDict, [msg |-> "OK"], [msg |-> "Publishing started"]}

Responses(t) ==
  Failures \cup
  { Ok(j) : j \in CASE t \in {"create_translation_keys", "update_translations"} ->
                         WithData(BulkData) \cup {[msg |-> "OK", data |-> [failures |-> <<>>]]}
                    [] t = "publish_translations" -> PublishBodies
                    [] OTHER -> WithData(StatusData) }

\* ---------------------------------------------- one invocation at a time
Next ==
  \/ \E keys \in KeyLists : create_translation_keys_Call(1, keys)
  \/ \E r \in Responses("create_translation_keys") : create_translation_keys_Resume(1, r)
  \/ \E translations \in TransLists : update_translations_Call(1, translations)
  \/ \E r \in Responses("update_translations") : update_translations_Resume(1, r)
  \/ \E k \in EnvironmentKeys : publish_translations_Call(1, k)
  \/ \E r \in Responses("publish_translations") : publish_translations_Resume(1, r)
  \/ \E k \in EnvironmentKeys : get_environment_status_Call(1, k)
  \/ \E r \in Responses("get_environment_status") : get_environment_status_Resume(1, r)
  \/ Retire(1)

Spec == Init /\ [][Next]_vars

\* ------------------------------------------- invocations in flight together
ConcKeyLists ==
  { <<[key |-> "greeting"]>>,
    <<[key |-> "greeting", namespace |-> "web"], [key |-> "farewell"]>>,
    <<[key |-> "greeting", namespace |-> Null]>>,
    <<[key |-> ""]>> }
ConcTransLists ==
  { <<FillerTrans>>, <<[key |-> "greeting", language |-> "en"]>> }
ConcEnvironmentKeys == {"", "_production"}

ConcResponses(t) ==
  { Fails("timeout", 0, ""), Fails("ok", 500, "Server error '500 Internal Server Error'"),
    [kind |-> "ok", status |-> 200, err |-> "Expecting value: line 1 column 1 (char 0)",
     malformed |-> TRUE, json |-> EmptyDict] }
  \cup
  { Ok(j) : j \in CASE t \in {"create_translation_keys", "update_translations"} ->
                         {EmptyDict, [data |-> [failures |-> <<"key1: duplicate">>]]}
                    [] t = "publish_translations" -> {[msg |-> "OK"]}
                    [] OTHER -> {EmptyDict, [data |-> FullStatus]} }

NextConc ==
  \E p \in Procs :
    \/ \E keys \in ConcKeyLists : create_translation_keys_Call(p, keys)
    \/ \E r \in ConcResponses("create_translation_keys") : create_translation_keys_Resume(p, r)
    \/ \E translations \in ConcTransLists : update_translations_Call(p, translations)
    \/ \E r \in ConcResponses("update_translations") : update_translations_Resume(p, r)
    \/ \E k \in ConcEnvironmentKeys : publish_translations_Call(p, k)
    \/ \E r \in ConcResponses("publish_translations") : publish_translations_Resume(p, r)
    \/ \E k \in ConcEnvironmentKeys : get_environment_status_Call(p, k)
    \/ \E r \in ConcResponses("get_environment_status") : get_environment_status_Resume(p, r)
    \/ Retire(p)

SpecConc == Init /\ [][NextConc]_vars

\* ===================================================== properties checked
StartsWith(s, pre) == Len(s) >= Len(pre) /\ SubSeq(s, 1, Len(pre)) = pre
Contains(s, sub) ==
  \E i \in 1..(Len(s) - Len(sub) + 1) : SubSeq(s, i, i + Len(sub) - 1) = sub

\* the positions of the line breaks of a text
Breaks(s) == {i \in 1..Len(s) : SubSeq(s, i, i) = "\n"}
\* the k-th line break, 0 before the first and Len(s) + 1 after the last
BreakAt(s, k) ==
  IF k = 0 THEN 0
  ELSE IF k > Cardinality(Breaks(s)) THEN Len(s) + 1
  ELSE CHOOSE i \in Breaks(s) : Cardinality({j \in Breaks(s) : j < i}) = k - 1
\* the lines of a text
SplitLines(s) ==
  [k \in 1..(Cardinality(Breaks(s)) + 1) |-> SubSeq(s, BreakAt(s, k - 1) + 1, BreakAt(s, k) - 1)]

BulkTools == {"create_translation_keys", "update_translations"}
EnvTools == {"publish_translations", "get_environment_status"}
RequiredFields(t) == IF t = "create_translation_keys" THEN {"key"} ELSE {"key", "language", "text"}
OptionalFields(t) == IF t = "create_translation_keys" THEN {"namespace", "description"} ELSE {"namespace"}
BodyKey(t) == IF t = "create_translation_keys" THEN "translationKeys" ELSE "translations"
ErrorPrefix == "SimpleLocalize API error: "

\* an item lacks a required field, as the specification counts it
LacksRequired(t, item) ==
  IF t = "create_translation_keys"
  THEN "key" \notin DOMAIN item \/ item["key"] \in {"", Null}
  ELSE \E f \in {"key", "language", "text"} : f \notin DOMAIN item

\* the arguments pass local validation, as the specification states it
ValidArgs(t, a) ==
  IF t \in BulkTools
  THEN Len(a.items) <= 100 /\ \A i \in 1..Len(a.items) : ~LacksRequired(t, a.items[i])
  ELSE a.environment_key /= ""

RaisedValidationError(p) ==
  /\ pc[p] = "done"
  /\ outcome[p].kind = "raise"
  /\ outcome[p].exc = "ValueError"
  /\ sent[p] = <<>>

\* the HTTP call ended in a 2xx answer whose body parsed as a JSON object
GotJson(p) ==
  /\ pc[p] = "done"
  /\ response[p].kind = "ok"
  /\ response[p].status \in 200..299
  /\ ~response[p].malformed

\* C1: every item of the body a bulk tool sends carries exactly the
\* required fields plus the optional fields its input item had, and no
\* optional field is sent as null
C1_BodyFieldsExact ==
  \A p \in Procs :
    (tool[p] \in BulkTools /\ sent[p] /= <<>>) =>
      LET body == sent[p][1].json[BodyKey(tool[p])]
          items == args[p].items IN
      /\ Len(body) = Len(items)
      /\ \A i \in 1..Len(body) :
           /\ DOMAIN body[i] = RequiredFields(tool[p]) \cup (OptionalFields(tool[p]) \cap DOMAIN items[i])
           /\ \A f \in OptionalFields(tool[p]) \cap DOMAIN body[i] : body[i][f] /= Null

\* C2: a bulk tool called with more than 100 elements raises a validation
\* error and issues no HTTP request
C2_OverLimitRaises ==
  \A p \in Procs :
    (tool[p] \in BulkTools /\ Len(args[p].items) > 100) => RaisedValidationError(p)

C2_Witness ==
  \E p \in Procs :
    /\ tool[p] = "create_translation_keys"
    /\ Len(args[p].items) = 101
    /\ \A i \in 1..Len(args[p].items) : ~LacksRequired(tool[p], args[p].items[i])
    /\ RaisedValidationError(p)
    /\ outcome[p].text = "Maximum 100 keys allowed per request"

\* C3: a bulk tool raises a validation error and issues no HTTP request
\* when any item, at any position, lacks a required field
C3_MissingFieldRaises ==
  \A p \in Procs :
    (tool[p] \in BulkTools
       /\ \E i \in 1..Len(args[p].items) : LacksRequired(tool[p], args[p].items[i]))
      => RaisedValidationError(p)

C3_Witness ==
  \E p \in Procs :
    LET items == args[p].items IN
    /\ tool[p] = "update_translations"
    /\ Len(items) >= 2
    /\ \A i \in 1..(Len(items) - 1) : ~LacksRequired(tool[p], items[i])
    /\ "text" \notin DOMAIN items[Len(items)]
    /\ RaisedValidationError(p)

\* C4: when the HTTP call times out, fails in transport or answers with a
\* non-2xx status, each tool returns an error string and raises nothing
C4_TransportErrorReturned ==
  \A p \in Procs :
    (pc[p] = "done"
       /\ \/ response[p].kind \in {"timeout", "transport"}
          \/ response[p].kind = "ok" /\ response[p].status \notin 200..299)
      => /\ outcome[p].kind = "return"
         /\ StartsWith(outcome[p].text, ErrorPrefix)

C4_Witness ==
  \E p \in Procs :
    /\ tool[p] = "get_environment_status"
    /\ pc[p] = "done"
    /\ response[p].kind = "timeout"
    /\ outcome[p].kind = "return"

\* C5: when a 2xx answer has a body that does not parse as JSON, each tool
\* returns an error string instead of letting an exception through
C5_MalformedBodyReturned ==
  \A p \in Procs :
    (pc[p] = "done" /\ response[p].kind = "ok" /\ response[p].status \in 200..299
       /\ response[p].malformed)
      => outcome[p].kind = "return"

\* C6: on a 2xx answer a bulk tool returns the failures of a non-empty
\* failures list, and neither the success message nor an error string;
\* with the list empty or absent it returns the success message with the
\* number of input items
C6_FailuresOrCount ==
  \A p \in Procs :
    (tool[p] \in BulkTools /\ GotJson(p)) =>
      LET data == GetOr(response[p].json, "data", EmptyDict)
          text == outcome[p].text IN
      /\ outcome[p].kind = "return"
      /\ IF "failures" \in DOMAIN data /\ Len(data["failures"]) > 0
         THEN /\ \A i \in 1..Len(data["failures"]) : Contains(text, data["failures"][i])
              /\ ~StartsWith(text, "Successfully")
              /\ ~StartsWith(text, ErrorPrefix)
         ELSE /\ StartsWith(text, "Successfully")
              /\ Contains(text, " " \o ToString(Len(args[p].items)) \o " ")

C6_Witness ==
  \E p \in Procs :
    /\ tool[p] = "update_translations"
    /\ GotJson(p)
    /\ "data" \in DOMAIN response[p].json
    /\ "failures" \in DOMAIN response[p].json["data"]
    /\ Len(response[p].json["data"]["failures"]) = 2
    /\ outcome[p].kind = "return"

\* C7: publish_translations and get_environment_status called with an
\* empty environment key raise a validation error and issue no HTTP request
C7_EmptyEnvironmentKeyRaises ==
  \A p \in Procs :
    (tool[p] \in EnvTools /\ args[p].environment_key = "") => RaisedValidationError(p)

C7_Witness ==
  \E p \in Procs :
    /\ tool[p] = "publish_translations"
    /\ args[p].environment_key = ""
    /\ RaisedValidationError(p)

\* C8: on a 2xx answer with any of the optional fields missing,
\* get_environment_status returns the summary (a heading and the five field
\* lines) with 0, "Unknown" and 0 resources in place of the missing fields
C8_StatusPlaceholders ==
  \A p \in Procs :
    (tool[p] = "get_environment_status" /\ GotJson(p)) =>
      LET data == GetOr(response[p].json, "data", EmptyDict)
          L == SplitLines(outcome[p].text) IN
      /\ outcome[p].kind = "return"
      /\ Len(L) = 6
      /\ L[1] = "Environment '" \o args[p].environment_key \o "' Status:"
      /\ StartsWith(L[2], "- Number of keys: ")
      /\ StartsWith(L[3], "- Number of languages: ")
      /\ StartsWith(L[4], "- Non-empty translations: ")
      /\ StartsWith(L[5], "- Created at: ")
      /\ StartsWith(L[6], "- Number of resources: ")
      /\ "numberOfKeys" \notin DOMAIN data => L[2] = "- Number of keys: 0"
      /\ "numberOfLanguages" \notin DOMAIN data => L[3] = "- Number of languages: 0"
      /\ "numberOfNonEmptyTranslations" \notin DOMAIN data => L[4] = "- Non-empty translations: 0"
      /\ "createdAt" \notin DOMAIN data => L[5] = "- Created at: Unknown"
      /\ "resources" \notin DOMAIN data => L[6] = "- Number of resources: 0"

C8_Witness ==
  \E p \in Procs :
    /\ tool[p] = "get_environment_status"
    /\ GotJson(p)
    /\ response[p].json = EmptyDict
    /\ outcome[p].kind = "return"

\* the method, path and body the specification names for a tool
ExpectedRequest(t, a, req) ==
  CASE t = "create_translation_keys" ->
         /\ req.method = "POST"
         /\ req.url = "https://api.simplelocalize.io/api/v1/translation-keys/bulk"
         /\ req.has_body
    [] t = "update_translations" ->
         /\ req.method = "PATCH"
         /\ req.url = "https://api.simplelocalize.io/api/v2/translations/bulk"
         /\ req.has_body
    [] t = "publish_translations" ->
         /\ req.method = "POST"
         /\ req.url = "https://api.simplelocalize.io/api/v2/environments/"
                        \o a.environment_key \o "/publish"
         /\ ~req.has_body
    [] OTHER ->
         /\ req.method = "GET"
         /\ req.url = "https://api.simplelocalize.io/api/v2/environments/" \o a.environment_key
         /\ ~req.has_body

\* C9: an invocation issues at most one HTTP request, exactly one when
\* local validation passes, with the method and path of its tool; a failed
\* or timed-out request is not followed by a second one
C9_OneRequest ==
  \A p \in Procs :
    /\ Len(sent[p]) <= 1
    /\ tool[p] /= "none" =>
         IF ValidArgs(tool[p], args[p])
         THEN Len(sent[p]) = 1 /\ ExpectedRequest(tool[p], args[p], sent[p][1])
         ELSE sent[p] = <<>>

C9_Witness ==
  \E p \in Procs :
    /\ tool[p] = "publish_translations"
    /\ args[p].environment_key = "_production"
    /\ pc[p] = "done"
    /\ response[p].kind = "timeout"
    /\ Len(sent[p]) = 1

\* what an invocation sends when it runs alone
SoloSent(t, a) ==
  IF ~ValidArgs(t, a) THEN <<>>
  ELSE CASE t = "create_translation_keys" ->
              <<BuildRequest("POST", "/api/v1/translation-keys/bulk", TRUE,
                             "translationKeys" :> [i \in 1..Len(a.items) |-> CleanKey(a.items[i])],
                             "https://api.simplelocalize.io", "secret-token")>>
         [] t = "update_translations" ->
              <<BuildRequest("PATCH", "/api/v2/translations/bulk", TRUE,
                             "translations" :> [i \in 1..Len(a.items) |-> CleanTrans(a.items[i])],
                             "https://api.simplelocalize.io", "secret-token")>>
         [] t = "publish_translations" ->
              <<BuildRequest("POST", "/api/v2/environments/" \o a.environment_key \o "/publish",
                             FALSE, EmptyDict, "https://api.simplelocalize.io", "secret-token")>>
         [] OTHER ->
              <<BuildRequest("GET", "/api/v2/environments/" \o a.environment_key,
                             FALSE, EmptyDict, "https://api.simplelocalize.io", "secret-token")>>

\* what an invocation gives its caller for an HTTP outcome when it runs alone
SoloOutcome(t, a, r) ==
  CASE t = "create_translation_keys" ->
         BulkResult(ReceiveResponse(r), Len(a.items), "Some keys failed to create: ",
                    "Successfully created ", " translation keys")
    [] t = "update_translations" ->
         BulkResult(ReceiveResponse(r), Len(a.items), "Some translations failed to update: ",
                    "Successfully updated ", " translations")
    [] t = "publish_translations" -> PublishResult(ReceiveResponse(r), a.environment_key)
    [] OTHER -> StatusResult(ReceiveResponse(r), a.environment_key)

C10_OwnDataOnly ==
  \A p \in Procs :
    /\ pc[p] = "awaiting" => sent[p] = SoloSent(tool[p], args[p])
    /\ (pc[p] = "done" /\ response[p].kind /= "none") =>
         /\ sent[p] = SoloSent(tool[p], args[p])
         /\ outcome[p] = SoloOutcome(tool[p], args[p], response[p])

\* C10: with invocations interleaved at their HTTP awaits, the base URL and
\* the credential never change, and what each invocation sends and returns
\* is what its own arguments and its own HTTP outcome give when it runs alone
C10_Independent == [](C10_OwnDataOnly) /\ [][UNCHANGED config]_vars

C10_Witness ==
  \E p, q \in Procs :
    /\ p /= q
    /\ tool[p] = "create_translation_keys" /\ tool[q] = "create_translation_keys"
    /\ Len(args[p].items) = 2 /\ Len(args[q].items) = 1
    /\ pc[p] = "done" /\ pc[q] = "awaiting"
    /\ response[p].kind = "ok"
    /\ outcome[p].kind = "return"

====
